---- MODULE Spec2Model ----
(***************************************************************************)
(* Model of target-riscv/translate.c: the translation-block builder        *)
(* gen_intermediate_code, the block exit helper gen_goto_tb and the        *)
(* exception helpers they use.  Addresses are target_ulong values of       *)
(* AddrBits bits; the emitted IR is an append-only sequence of operations. *)
(***************************************************************************)
EXTENDS Integers, Sequences, FiniteSets, TLC

\* ---- bounds (scaled-down machine parameters) ----
AddrBits == 5
PageBits == 4
CountBits == 2
TCG_MAX_INSNS == 2
MaxVal == 2
MaxRegOps == 4
MaxInits == 2

\* ---- program constants ----
BS_NONE == 0
BS_STOP == 1
BS_BRANCH == 2
INSN_WIDTH == 4
RISCV_EXCP_ILLEGAL_INST == 2
NumRegs == 32

AddrSpace == 2 ^ AddrBits
TARGET_PAGE_SIZE == 2 ^ PageBits
CF_COUNT_MASK == (2 ^ CountBits) - 1
CF_LAST_IO == 2 ^ CountBits

Addr == 0 .. (AddrSpace - 1)
AlignedAddr == {a \in Addr : a % INSN_WIDTH = 0}
CFlags == 0 .. (2 * CF_LAST_IO - 1)
DecodeOutcome == {"Emitted", "Illegal", "Stop", "Branch"}

\* destinations a decoded branch is given inside a block build: for every
\* block start one of them is on its page and (with two pages or more) the
\* other is not
BranchDests == {0, AddrSpace - INSN_WIDTH}

\* breakpoint sets: none, or one breakpoint at an address the block can reach
BreakpointSets(pc) ==
    {{}} \cup {{(pc + k * INSN_WIDTH) % AddrSpace} : k \in 0 .. TCG_MAX_INSNS}

VARIABLES
    userOnly,        \* build configuration: CONFIG_USER_ONLY defined
    tb_pc,           \* tb->pc
    tb_cflags,       \* tb->cflags
    cs_singlestep,   \* cs->singlestep_enabled
    singlestep,      \* global forced-single-instruction flag
    breakpoints,     \* addresses for which cpu_breakpoint_test is true
    loc,             \* position inside gen_intermediate_code
    pc_start,
    next_page_start,
    ctx_pc,          \* ctx.pc
    ctx_bstate,      \* ctx.bstate
    ctx_singlestep,  \* ctx.singlestep_enabled
    num_insns,
    max_insns,
    ir,              \* IR operations emitted so far
    decoded,         \* log of cpu_ldl_code/decode_opc calls
    gotos,           \* log of gen_goto_tb calls
    exitStart,       \* Len(ir) when the exit logic started, -1 before
    tb_size,         \* tb->size
    tb_icount,       \* tb->icount
    \* -- TCG globals and guest registers --
    tcg_inited,      \* static int inited of riscv_tcg_init
    cpu_gpr,         \* register indices whose cpu_gpr[] global is allocated
    env_gpr,         \* env->gpr[]
    reg_read,        \* the last register read: <<[reg, val]>>, or <<>>
    reg_ops,         \* number of register operations emitted and run
    \* -- CPU model registry --
    riscv64,         \* build configuration: TARGET_RISCV64 defined
    cpus,            \* CPU objects created by cpu_riscv_init
    init_calls,      \* log of the cpu_riscv_init calls
    n_inits,         \* number of cpu_riscv_init calls
    \* -- concurrent builders --
    c_in,            \* per invocation: tb, cs, breakpoints, instruction stream
    c_ctx,           \* DisasContext objects
    c_loc,           \* per invocation: position in gen_intermediate_code
    c_local,         \* per invocation: num_insns, max_insns, next_page_start
    c_ir,            \* IR streams
    c_tb             \* per invocation: tb->size, tb->icount

vars == <<userOnly, tb_pc, tb_cflags, cs_singlestep, singlestep, breakpoints,
          loc, pc_start, next_page_start, ctx_pc, ctx_bstate, ctx_singlestep,
          num_insns, max_insns, ir, decoded, gotos, exitStart, tb_size,
          tb_icount, tcg_inited, cpu_gpr, env_gpr, reg_read, reg_ops, riscv64,
          cpus, init_calls, n_inits, c_in, c_ctx, c_loc, c_local, c_ir, c_tb>>

buildervars == <<userOnly, tb_pc, tb_cflags, cs_singlestep, singlestep,
                 breakpoints, loc, pc_start, next_page_start, ctx_pc,
                 ctx_bstate, ctx_singlestep, num_insns, max_insns, ir, decoded,
                 gotos, exitStart, tb_size, tb_icount>>

regvars == <<tcg_inited, cpu_gpr, env_gpr, reg_read, reg_ops>>

modelvars == <<riscv64, cpus, init_calls, n_inits>>

concvars == <<c_in, c_ctx, c_loc, c_local, c_ir, c_tb>>

others == <<regvars, modelvars, concvars>>

inputs == <<userOnly, tb_pc, tb_cflags, cs_singlestep, singlestep, breakpoints>>

\* ---- IR operations ----
Op(name, arg) == [op |-> name, arg |-> arg, tb |-> FALSE]

\* tcg_gen_exit_tb((uintptr_t)ctx->tb + n): the value carries the block
ExitTbLinked(n) == [op |-> "exit_tb", arg |-> n, tb |-> TRUE]

\* ---- address arithmetic (target_ulong, modulo 2^AddrBits) ----
\* a & TARGET_PAGE_MASK
PageOf(a) == a - (a % TARGET_PAGE_SIZE)

NextPageStart_nowrap(pc) == PageOf(pc) + TARGET_PAGE_SIZE

NextPageStart(pc) == (PageOf(pc) + TARGET_PAGE_SIZE) % AddrSpace

AdvancePC(pc) == (pc + INSN_WIDTH) % AddrSpace

\* ---- instruction budget ----
CountOf(cflags) == cflags % (CF_COUNT_MASK + 1)

HasLastIO(cflags) == (cflags \div CF_LAST_IO) % 2 = 1

MaxInsns(cflags) ==
    LET m == IF CountOf(cflags) = 0 THEN CF_COUNT_MASK ELSE CountOf(cflags)
    IN  IF m > TCG_MAX_INSNS THEN TCG_MAX_INSNS ELSE m

\* ---- exception helpers ----
generate_exception(pc, excp) ==
    <<Op("movi_pc", pc), Op("raise_exception", excp)>>

kill_unknown_nostop(pc, excp) ==
    [ir |-> generate_exception(pc, excp), bstate |-> BS_NONE]

kill_unknown(pc, excp) ==
    [ir |-> generate_exception(pc, excp), bstate |-> BS_STOP]

\* ---- block exit / chaining ----
use_goto_tb_nostep(ss, base, dest, uo) ==
    IF uo THEN TRUE ELSE PageOf(base) = PageOf(dest)

use_goto_tb(ss, base, dest, uo) ==
    IF ss THEN FALSE
    ELSE IF uo THEN TRUE
    ELSE PageOf(base) = PageOf(dest)

gen_goto_tb_nodebug(ss, base, n, dest, uo) ==
    IF use_goto_tb(ss, base, dest, uo)
    THEN <<Op("goto_tb", n), Op("movi_pc", dest), ExitTbLinked(n)>>
    ELSE <<Op("movi_pc", dest), Op("exit_tb", 0)>>

gen_goto_tb(ss, base, n, dest, uo) ==
    IF use_goto_tb(ss, base, dest, uo)
    THEN <<Op("goto_tb", n), Op("movi_pc", dest), ExitTbLinked(n)>>
    ELSE <<Op("movi_pc", dest)>>
         \o (IF ss THEN <<Op("raise_debug", 0)>> ELSE <<>>)
         \o <<Op("exit_tb", 0)>>

GotoCall(ss, base, n, dest, uo) ==
    [ss |-> ss, base |-> base, n |-> n, dest |-> dest,
     ops |-> gen_goto_tb(ss, base, n, dest, uo)]

\* ---- decoder ----
\* result of decode_opc for one instruction at pc: IR appended, new bstate,
\* gen_goto_tb calls made
decode_opc(outcome, pc, ss, base, n, dest, uo) ==
    CASE outcome = "Emitted" ->
            [ir |-> <<>>, bstate |-> BS_NONE, gotos |-> <<>>]
      [] outcome = "Illegal" ->
            [ir |-> kill_unknown(pc, RISCV_EXCP_ILLEGAL_INST).ir,
             bstate |-> kill_unknown(pc, RISCV_EXCP_ILLEGAL_INST).bstate,
             gotos |-> <<>>]
      [] outcome = "Stop" ->
            [ir |-> <<>>, bstate |-> BS_STOP, gotos |-> <<>>]
      [] outcome = "Branch" ->
            [ir |-> gen_goto_tb(ss, base, n, dest, uo),
             bstate |-> BS_BRANCH,
             gotos |-> <<GotoCall(ss, base, n, dest, uo)>>]

\* ---- I/O boundary notifications ----
\* lines 176-178
IoStartOps_always(n, m, cflags) ==
    IF HasLastIO(cflags) THEN <<Op("io_start", 0)>> ELSE <<>>

IoStartOps(n, m, cflags) ==
    IF n = m /\ HasLastIO(cflags) THEN <<Op("io_start", 0)>> ELSE <<>>

\* lines 201-203
IoEndOps(cflags) ==
    IF HasLastIO(cflags) THEN <<Op("io_end", 0)>> ELSE <<>>

\* ---- breakpoint path of the loop ----
cpu_breakpoint_test_next(bps, pc) == AdvancePC(pc) \in bps

cpu_breakpoint_test(bps, pc) == pc \in bps

BreakpointPath_target_next(pc) ==
    [ir |-> <<Op("movi_pc", AdvancePC(pc)), Op("raise_debug", 0)>>,
     bstate |-> BS_BRANCH,
     pc |-> AdvancePC(pc)]

BreakpointPath_noadvance(pc) ==
    [ir |-> <<Op("movi_pc", pc), Op("raise_debug", 0)>>,
     bstate |-> BS_BRANCH,
     pc |-> pc]

BreakpointPath_stop(pc) ==
    [ir |-> <<Op("movi_pc", pc), Op("raise_debug", 0)>>,
     bstate |-> BS_STOP,
     pc |-> AdvancePC(pc)]

BreakpointPath(pc) ==
    [ir |-> <<Op("movi_pc", pc), Op("raise_debug", 0)>>,
     bstate |-> BS_BRANCH,
     pc |-> AdvancePC(pc)]

\* ---- termination predicates after one decoded instruction ----
LoopBreak_overbudget(css, pc, nps, bufFull, n, m, gss) ==
    \/ css
    \/ pc >= nps
    \/ bufFull
    \/ n > m
    \/ gss

LoopBreak_pagegt(css, pc, nps, bufFull, n, m, gss) ==
    \/ css
    \/ pc > nps
    \/ bufFull
    \/ n >= m
    \/ gss

LoopBreak_nobudget(css, pc, nps, bufFull, n, m, gss) ==
    \/ css
    \/ pc >= nps
    \/ bufFull
    \/ gss

LoopBreak_noglobal(css, pc, nps, bufFull, n, m, gss) ==
    \/ css
    \/ pc >= nps
    \/ bufFull
    \/ n >= m

LoopBreak(css, pc, nps, bufFull, n, m, gss) ==
    \/ css
    \/ pc >= nps
    \/ bufFull
    \/ n >= m
    \/ gss

\* ---- exit logic after the loop ----
ExitLogic_chain_open(css, ss, bstate, pc, base, uo) ==
    IF css /\ bstate # BS_BRANCH
    THEN [ir |-> (IF bstate = BS_NONE THEN <<Op("movi_pc", pc)>> ELSE <<>>)
                 \o <<Op("raise_debug", 0)>>,
          gotos |-> <<>>]
    ELSE CASE bstate = BS_STOP ->
                [ir |-> gen_goto_tb(ss, base, 0, pc, uo),
                 gotos |-> <<GotoCall(ss, base, 0, pc, uo)>>]
           [] bstate = BS_NONE ->
                [ir |-> gen_goto_tb(ss, base, 0, pc, uo),
                 gotos |-> <<GotoCall(ss, base, 0, pc, uo)>>]
           [] OTHER ->
                [ir |-> <<>>, gotos |-> <<>>]

ExitLogic_nodebug(css, ss, bstate, pc, base, uo) ==
    CASE bstate = BS_STOP ->
            [ir |-> gen_goto_tb(ss, base, 0, pc, uo),
             gotos |-> <<GotoCall(ss, base, 0, pc, uo)>>]
      [] bstate = BS_NONE ->
            [ir |-> <<Op("movi_pc", pc), Op("exit_tb", 0)>>,
             gotos |-> <<>>]
      [] OTHER ->
            [ir |-> <<>>, gotos |-> <<>>]

ExitLogic(css, ss, bstate, pc, base, uo) ==
    IF css /\ bstate # BS_BRANCH
    THEN [ir |-> (IF bstate = BS_NONE THEN <<Op("movi_pc", pc)>> ELSE <<>>)
                 \o <<Op("raise_debug", 0)>>,
          gotos |-> <<>>]
    ELSE CASE bstate = BS_STOP ->
                [ir |-> gen_goto_tb(ss, base, 0, pc, uo),
                 gotos |-> <<GotoCall(ss, base, 0, pc, uo)>>]
           [] bstate = BS_NONE ->
                [ir |-> <<Op("movi_pc", pc), Op("exit_tb", 0)>>,
                 gotos |-> <<>>]
           [] OTHER ->
                [ir |-> <<>>, gotos |-> <<>>]

\* ---- block descriptor ----
TbSize_frompage(pc, start) == (pc - PageOf(start)) % AddrSpace

TbSize(pc, start) == (pc - start) % AddrSpace

\* ---- the parts of the state a specification leaves untouched ----
Regs == 0 .. (NumRegs - 1)

RegIdle ==
    /\ tcg_inited = FALSE
    /\ cpu_gpr = {}
    /\ env_gpr = [r \in Regs |-> 0]
    /\ reg_read = <<>>
    /\ reg_ops = 0

ModelIdle ==
    /\ riscv64 = TRUE
    /\ cpus = <<>>
    /\ init_calls = <<>>
    /\ n_inits = 0

ConcIdle ==
    /\ c_in = <<>>
    /\ c_ctx = <<>>
    /\ c_loc = <<>>
    /\ c_local = <<>>
    /\ c_ir = <<>>
    /\ c_tb = <<>>

BuilderIdle ==
    /\ userOnly = FALSE
    /\ tb_pc = 0
    /\ tb_cflags = 0
    /\ cs_singlestep = FALSE
    /\ singlestep = FALSE
    /\ breakpoints = {}
    /\ loc = "idle"
    /\ pc_start = 0
    /\ next_page_start = 0
    /\ ctx_pc = 0
    /\ ctx_bstate = BS_NONE
    /\ ctx_singlestep = FALSE
    /\ num_insns = 0
    /\ max_insns = 0
    /\ ir = <<>>
    /\ decoded = <<>>
    /\ gotos = <<>>
    /\ exitStart = -1
    /\ tb_size = 0
    /\ tb_icount = 0

\* ---- state machine ----
Init ==
    /\ userOnly \in BOOLEAN
    /\ tb_pc \in AlignedAddr
    /\ tb_cflags \in CFlags
    /\ cs_singlestep \in BOOLEAN
    /\ singlestep \in BOOLEAN
    /\ breakpoints \in BreakpointSets(tb_pc)
    /\ loc = "entry"
    /\ pc_start = 0
    /\ next_page_start = 0
    /\ ctx_pc = 0
    /\ ctx_bstate = BS_NONE
    /\ ctx_singlestep = FALSE
    /\ num_insns = 0
    /\ max_insns = 0
    /\ ir = <<>>
    /\ decoded = <<>>
    /\ gotos = <<>>
    /\ exitStart = -1
    /\ tb_size = 0
    /\ tb_icount = 0
    /\ RegIdle /\ ModelIdle /\ ConcIdle

\* lines 138-158: context set-up, instruction budget, gen_tb_start
Setup ==
    /\ loc = "entry"
    /\ pc_start' = tb_pc
    /\ next_page_start' = NextPageStart(tb_pc)
    /\ ctx_pc' = tb_pc
    /\ ctx_singlestep' = cs_singlestep
    /\ ctx_bstate' = BS_NONE
    /\ num_insns' = 0
    /\ max_insns' = MaxInsns(tb_cflags)
    /\ ir' = ir \o <<Op("tb_start", 0)>>
    /\ loc' = "loop"
    /\ UNCHANGED <<others, inputs, decoded, gotos, exitStart, tb_size, tb_icount>>

\* lines 160-174: an iteration whose breakpoint test matches
LoopBreakpoint ==
    /\ loc = "loop"
    /\ ctx_bstate = BS_NONE
    /\ cpu_breakpoint_test(breakpoints, ctx_pc)
    /\ num_insns' = num_insns + 1
    /\ ir' = ir \o <<Op("insn_start", ctx_pc)>> \o BreakpointPath(ctx_pc).ir
    /\ ctx_bstate' = BreakpointPath(ctx_pc).bstate
    /\ ctx_pc' = BreakpointPath(ctx_pc).pc
    /\ loc' = "done_generating"
    /\ UNCHANGED <<others, inputs, pc_start, next_page_start, ctx_singlestep,
                   max_insns, decoded, gotos, exitStart, tb_size, tb_icount>>

\* lines 160-200: an iteration that fetches and decodes one instruction
LoopDecode ==
    /\ loc = "loop"
    /\ ctx_bstate = BS_NONE
    /\ ~cpu_breakpoint_test(breakpoints, ctx_pc)
    /\ \E outcome \in DecodeOutcome, n \in {0, 1}, dest \in BranchDests,
          bufFull \in BOOLEAN, fault \in BOOLEAN :
          \* n, dest only matter to a branch; fault is whether the code fetch
          \* at ctx.pc found the address inaccessible: the value cpu_ldl_code
          \* returns is handed to decode_opc unexamined
          /\ outcome # "Branch" => (n = 0 /\ dest = 0)
          /\ LET d == decode_opc(outcome, ctx_pc, ctx_singlestep, tb_pc, n,
                                 dest, userOnly)
                 io == IoStartOps(num_insns + 1, max_insns, tb_cflags)
                 npc == AdvancePC(ctx_pc)
                 brk == LoopBreak(cs_singlestep, npc, next_page_start,
                                  bufFull, num_insns + 1, max_insns,
                                  singlestep)
             IN  /\ num_insns' = num_insns + 1
                 /\ ir' = ir \o <<Op("insn_start", ctx_pc)>> \o io \o d.ir
                 /\ decoded' = Append(decoded,
                                      [addr |-> ctx_pc, outcome |-> outcome,
                                       fault |-> fault])
                 /\ gotos' = gotos \o d.gotos
                 /\ ctx_bstate' = d.bstate
                 /\ ctx_pc' = npc
                 /\ loc' = IF brk \/ d.bstate # BS_NONE THEN "tail" ELSE "loop"
    /\ UNCHANGED <<others, inputs, pc_start, next_page_start, ctx_singlestep,
                   max_insns, exitStart, tb_size, tb_icount>>

\* lines 201-222: gen_io_end and the exit logic
ExitStep ==
    /\ loc = "tail"
    /\ LET io == IoEndOps(tb_cflags)
           e == ExitLogic(cs_singlestep, ctx_singlestep, ctx_bstate, ctx_pc,
                          tb_pc, userOnly)
       IN  /\ exitStart' = Len(ir \o io)
           /\ ir' = ir \o io \o e.ir
           /\ gotos' = gotos \o e.gotos
    /\ loc' = "done_generating"
    /\ UNCHANGED <<others, inputs, pc_start, next_page_start, ctx_pc, ctx_bstate,
                   ctx_singlestep, num_insns, max_insns, decoded, tb_size,
                   tb_icount>>

\* lines 223-226: gen_tb_end and the block descriptor
Finalize ==
    /\ loc = "done_generating"
    /\ ir' = ir \o <<Op("tb_end", num_insns)>>
    /\ tb_size' = TbSize(ctx_pc, pc_start)
    /\ tb_icount' = num_insns
    /\ loc' = "done"
    /\ UNCHANGED <<others, inputs, pc_start, next_page_start, ctx_pc, ctx_bstate,
                   ctx_singlestep, num_insns, max_insns, decoded, gotos,
                   exitStart>>

Next ==
    \/ Setup
    \/ LoopBreakpoint
    \/ LoopDecode
    \/ ExitStep
    \/ Finalize

Spec == Init /\ [][Next]_vars

\* the builder runs to completion once entered
FairSpec == Spec /\ WF_vars(Next)

\* ---- gen_goto_tb on its own: every (start, destination, single-step) ----
InitGoto ==
    /\ userOnly \in BOOLEAN
    /\ tb_pc \in AlignedAddr
    /\ ctx_singlestep \in BOOLEAN
    /\ cs_singlestep = ctx_singlestep
    /\ tb_cflags = 0
    /\ singlestep = FALSE
    /\ breakpoints = {}
    /\ loc = "goto_entry"
    /\ pc_start = tb_pc
    /\ next_page_start = NextPageStart(tb_pc)
    /\ ctx_pc = tb_pc
    /\ ctx_bstate = BS_NONE
    /\ num_insns = 0
    /\ max_insns = 0
    /\ ir = <<>>
    /\ decoded = <<>>
    /\ gotos = <<>>
    /\ exitStart = -1
    /\ tb_size = 0
    /\ tb_icount = 0
    /\ RegIdle /\ ModelIdle /\ ConcIdle

\* lines 109-123: one call gen_goto_tb(ctx, n, dest)
GotoTbCall ==
    /\ loc = "goto_entry"
    /\ \E n \in {0, 1}, dest \in AlignedAddr :
          /\ ir' = ir \o gen_goto_tb(ctx_singlestep, tb_pc, n, dest, userOnly)
          /\ gotos' = Append(gotos, GotoCall(ctx_singlestep, tb_pc, n, dest,
                                             userOnly))
    /\ loc' = "goto_done"
    /\ UNCHANGED <<others, inputs, pc_start, next_page_start, ctx_pc, ctx_bstate,
                   ctx_singlestep, num_insns, max_insns, decoded, exitStart,
                   tb_size, tb_icount>>

NextGoto == GotoTbCall

SpecGoto == InitGoto /\ [][NextGoto]_vars

\* ---- riscv_tcg_init and the guest registers ----
\* lines 275-279: the registers that get a TCG global
GprGlobals_all(nregs) == 0 .. (nregs - 1)

GprGlobals(nregs) == 1 .. (nregs - 1)

\* register write helper: a write to register 0 is dropped
gen_set_gpr(gpr, r, v) == IF r # 0 THEN [gpr EXCEPT ![r] = v] ELSE gpr

\* register read helper: register 0 reads as the constant 0
gen_get_gpr(gpr, r) == IF r = 0 THEN 0 ELSE gpr[r]

\* registers and values the register operations are drawn from
RegsUsed == {0, 1, 2, NumRegs - 1}

Vals == 1 .. MaxVal

InitRegs ==
    /\ BuilderIdle /\ ModelIdle /\ ConcIdle
    /\ RegIdle

\* lines 260-290
TcgInit ==
    /\ ~tcg_inited
    /\ cpu_gpr' = GprGlobals(NumRegs)
    /\ tcg_inited' = TRUE
    /\ UNCHANGED <<env_gpr, reg_read, reg_ops>>
    /\ UNCHANGED <<buildervars, modelvars, concvars>>

\* an emitted operation that writes register r: through gen_set_gpr, or
\* straight through the TCG global cpu_gpr[r] where one exists
WriteReg ==
    /\ tcg_inited
    /\ reg_ops < MaxRegOps
    /\ \E r \in RegsUsed, v \in Vals, direct \in BOOLEAN :
          /\ direct => r \in cpu_gpr
          /\ env_gpr' = IF direct THEN [env_gpr EXCEPT ![r] = v]
                        ELSE gen_set_gpr(env_gpr, r, v)
    /\ reg_ops' = reg_ops + 1
    /\ UNCHANGED <<tcg_inited, cpu_gpr, reg_read>>
    /\ UNCHANGED <<buildervars, modelvars, concvars>>

\* an emitted operation that reads register r
ReadReg ==
    /\ tcg_inited
    /\ reg_ops < MaxRegOps
    /\ \E r \in RegsUsed, direct \in BOOLEAN :
          /\ direct => r \in cpu_gpr
          /\ reg_read' = <<[reg |-> r,
                            val |-> IF direct THEN env_gpr[r]
                                    ELSE gen_get_gpr(env_gpr, r)]>>
    /\ reg_ops' = reg_ops + 1
    /\ UNCHANGED <<tcg_inited, cpu_gpr, env_gpr>>
    /\ UNCHANGED <<buildervars, modelvars, concvars>>

NextRegs == TcgInit \/ WriteReg \/ ReadReg

SpecRegs == InitRegs /\ [][NextRegs]_vars

\* ---- CPU model registry ----
Upper == <<"A", "B", "C", "D", "E", "F", "G", "H", "I", "J", "K", "L", "M",
           "N", "O", "P", "Q", "R", "S", "T", "U", "V", "W", "X", "Y", "Z">>

Lower == <<"a", "b", "c", "d", "e", "f", "g", "h", "i", "j", "k", "l", "m",
           "n", "o", "p", "q", "r", "s", "t", "u", "v", "w", "x", "y", "z">>

tolower(c) ==
    IF \E i \in DOMAIN Upper : Upper[i] = c
    THEN Lower[CHOOSE i \in DOMAIN Upper : Upper[i] = c]
    ELSE c

\* 0 when the strings are equal ignoring case, 1 (nonzero) otherwise
RECURSIVE strcasecmp(_, _)
strcasecmp(a, b) ==
    IF a = <<>> /\ b = <<>> THEN 0
    ELSE IF a = <<>> \/ b = <<>> THEN 1
    ELSE IF tolower(Head(a)) # tolower(Head(b)) THEN 1
    ELSE strcasecmp(Tail(a), Tail(b))

strcmp(a, b) == IF a = b THEN 0 ELSE 1

\* lines 292-321
riscv_defs(rv64) ==
    << [name |-> <<"r", "i", "s", "c", "v">>,
        init_misa_reg |->
            {IF rv64 THEN "RV64I" ELSE "RV32I",
             "SUPER", "USER", "I", "M", "A", "F", "D"}] >>

\* lines 323-332: index of the first matching entry, 0 for NULL
cpu_riscv_find_by_name_exact(name, rv64) ==
    LET hits == {i \in DOMAIN riscv_defs(rv64) :
                    strcmp(name, riscv_defs(rv64)[i].name) = 0}
    IN  IF hits = {} THEN 0
        ELSE CHOOSE i \in hits : \A j \in hits : i <= j

cpu_riscv_find_by_name(name, rv64) ==
    LET hits == {i \in DOMAIN riscv_defs(rv64) :
                    strcasecmp(name, riscv_defs(rv64)[i].name) = 0}
    IN  IF hits = {} THEN 0
        ELSE CHOOSE i \in hits : \A j \in hits : i <= j

\* lines 352-364: the CPU object cpu_riscv_init sets up for entry def
NewCpu(def, rv64) ==
    [cpu_model |-> def,
     csr_others_zero |-> TRUE,
     priv |-> "PRV_M",
     misa |-> riscv_defs(rv64)[def].init_misa_reg,
     realized |-> TRUE,
     default_nan_mode |-> 1]

\* names cpu_riscv_init is called with
ModelNames ==
    { <<"r", "i", "s", "c", "v">>, <<"R", "I", "S", "C", "V">>,
      <<"R", "i", "s", "c", "V">>, <<"b", "o", "g", "u", "s">>,
      <<"r", "i", "s", "c">>, <<"r", "i", "s", "c", "v", "x">>,
      <<"r", "i", "s", "c", "w">>, <<>> }

InitModels ==
    /\ BuilderIdle /\ RegIdle /\ ConcIdle
    /\ riscv64 \in BOOLEAN
    /\ cpus = <<>>
    /\ init_calls = <<>>
    /\ n_inits = 0

\* lines 342-367: cpu_riscv_init(cpu_model); ret is 0 for NULL, else the
\* index of the new CPU object
CpuRiscvInit ==
    /\ n_inits < MaxInits
    /\ \E name \in ModelNames :
          LET def == cpu_riscv_find_by_name(name, riscv64)
          IN  IF def = 0
              THEN /\ cpus' = cpus
                   /\ init_calls' = Append(init_calls,
                          [name |-> name, ret |-> 0,
                           before |-> cpus, after |-> cpus'])
              ELSE /\ cpus' = Append(cpus, NewCpu(def, riscv64))
                   /\ init_calls' = Append(init_calls,
                          [name |-> name, ret |-> Len(cpus) + 1,
                           before |-> cpus, after |-> cpus'])
    /\ n_inits' = n_inits + 1
    /\ UNCHANGED riscv64
    /\ UNCHANGED <<buildervars, regvars, concvars>>

NextModels == CpuRiscvInit

SpecModels == InitModels /\ [][NextModels]_vars

\* ---- two builder invocations for different CPU contexts ----
Procs == {1, 2}

\* line 133: the DisasContext an invocation works on is its own local
CtxOf_static(p) == 1

CtxOf(p) == p

\* the IR stream an invocation's tcg_gen_* calls append to
StreamOf(p) == p

ConcPCs == {0, TARGET_PAGE_SIZE - INSN_WIDTH}

\* what one invocation is given: tb->pc, tb->cflags, its CPU's
\* singlestep_enabled and breakpoints, and how its instructions decode
ConcInputs ==
    [pc : ConcPCs, cflags : {0, 1}, ss : BOOLEAN,
     bps : {{}, {INSN_WIDTH}}, outcome : DecodeOutcome]

InitConc ==
    /\ BuilderIdle /\ RegIdle /\ ModelIdle
    /\ c_in \in [Procs -> ConcInputs]
    /\ c_ctx = [x \in Procs |->
                  [pc |-> 0, bstate |-> BS_NONE, singlestep_enabled |-> FALSE]]
    /\ c_loc = [p \in Procs |-> "entry"]
    /\ c_local = [p \in Procs |->
                    [pc_start |-> 0, next_page_start |-> 0,
                     num_insns |-> 0, max_insns |-> 0]]
    /\ c_ir = [x \in Procs |-> <<>>]
    /\ c_tb = [p \in Procs |-> [size |-> 0, icount |-> 0]]

Emit(p, ops) == [c_ir EXCEPT ![StreamOf(p)] = @ \o ops]

\* lines 138-158
CSetup(p) ==
    /\ c_loc[p] = "entry"
    /\ c_ctx' = [c_ctx EXCEPT ![CtxOf(p)] =
                    [pc |-> c_in[p].pc, bstate |-> BS_NONE,
                     singlestep_enabled |-> c_in[p].ss]]
    /\ c_local' = [c_local EXCEPT ![p] =
                    [pc_start |-> c_in[p].pc,
                     next_page_start |-> NextPageStart(c_in[p].pc),
                     num_insns |-> 0,
                     max_insns |-> MaxInsns(c_in[p].cflags)]]
    /\ c_ir' = Emit(p, <<Op("tb_start", 0)>>)
    /\ c_loc' = [c_loc EXCEPT ![p] = "loop"]
    /\ UNCHANGED <<c_in, c_tb>>

\* lines 160-178: loop test, insn_start, breakpoint test, gen_io_start
CHead(p) ==
    /\ c_loc[p] = "loop"
    /\ LET ctx == c_ctx[CtxOf(p)]
           n1 == c_local[p].num_insns + 1
       IN  IF ctx.bstate # BS_NONE
           THEN /\ c_loc' = [c_loc EXCEPT ![p] = "tail"]
                /\ UNCHANGED <<c_ctx, c_local, c_ir>>
           ELSE /\ c_local' = [c_local EXCEPT ![p].num_insns = n1]
                /\ IF cpu_breakpoint_test(c_in[p].bps, ctx.pc)
                   THEN /\ c_ir' = Emit(p, <<Op("insn_start", ctx.pc)>>
                                           \o BreakpointPath(ctx.pc).ir)
                        /\ c_ctx' = [c_ctx EXCEPT ![CtxOf(p)] =
                              [@ EXCEPT !.bstate = BreakpointPath(ctx.pc).bstate,
                                        !.pc = BreakpointPath(ctx.pc).pc]]
                        /\ c_loc' = [c_loc EXCEPT ![p] = "done_generating"]
                   ELSE /\ c_ir' = Emit(p, <<Op("insn_start", ctx.pc)>>
                                           \o IoStartOps(n1,
                                                 c_local[p].max_insns,
                                                 c_in[p].cflags))
                        /\ c_ctx' = c_ctx
                        /\ c_loc' = [c_loc EXCEPT ![p] = "decode"]
    /\ UNCHANGED <<c_in, c_tb>>

\* lines 180-181: fetch and decode
CDecode(p) ==
    /\ c_loc[p] = "decode"
    /\ LET ctx == c_ctx[CtxOf(p)]
           d == decode_opc(c_in[p].outcome, ctx.pc, ctx.singlestep_enabled,
                           c_in[p].pc, 0, 0, userOnly)
       IN  /\ c_ir' = Emit(p, d.ir)
           /\ c_ctx' = [c_ctx EXCEPT ![CtxOf(p)].bstate =
                           IF c_in[p].outcome = "Emitted" THEN @ ELSE d.bstate]
    /\ c_loc' = [c_loc EXCEPT ![p] = "advance"]
    /\ UNCHANGED <<c_in, c_local, c_tb>>

\* lines 182-198: advance and termination predicates
CAdvance(p) ==
    /\ c_loc[p] = "advance"
    /\ LET npc == AdvancePC(c_ctx[CtxOf(p)].pc)
       IN  /\ c_ctx' = [c_ctx EXCEPT ![CtxOf(p)].pc = npc]
           /\ c_loc' = [c_loc EXCEPT ![p] =
                 IF LoopBreak(c_in[p].ss, npc, c_local[p].next_page_start,
                              FALSE, c_local[p].num_insns,
                              c_local[p].max_insns, singlestep)
                 THEN "tail" ELSE "loop"]
    /\ UNCHANGED <<c_in, c_local, c_ir, c_tb>>

\* lines 201-222
CExit(p) ==
    /\ c_loc[p] = "tail"
    /\ LET ctx == c_ctx[CtxOf(p)]
       IN  c_ir' = Emit(p, IoEndOps(c_in[p].cflags)
                           \o ExitLogic(c_in[p].ss, ctx.singlestep_enabled,
                                        ctx.bstate, ctx.pc, c_in[p].pc,
                                        userOnly).ir)
    /\ c_loc' = [c_loc EXCEPT ![p] = "done_generating"]
    /\ UNCHANGED <<c_in, c_ctx, c_local, c_tb>>

\* lines 223-226
CFinalize(p) ==
    /\ c_loc[p] = "done_generating"
    /\ c_ir' = Emit(p, <<Op("tb_end", c_local[p].num_insns)>>)
    /\ c_tb' = [c_tb EXCEPT ![p] =
                  [size |-> TbSize(c_ctx[CtxOf(p)].pc, c_local[p].pc_start),
                   icount |-> c_local[p].num_insns]]
    /\ c_loc' = [c_loc EXCEPT ![p] = "done"]
    /\ UNCHANGED <<c_in, c_ctx, c_local>>

NextConc ==
    /\ \E p \in Procs :
          \/ CSetup(p)
          \/ CHead(p)
          \/ CDecode(p)
          \/ CAdvance(p)
          \/ CExit(p)
          \/ CFinalize(p)
    /\ UNCHANGED <<buildervars, regvars, modelvars>>

SpecConc == InitConc /\ [][NextConc]_vars

TypeOK ==
    /\ loc \in {"entry", "loop", "tail", "done_generating", "done",
               "goto_entry", "goto_done", "idle"}
    /\ ctx_pc \in Addr
    /\ ctx_bstate \in {BS_NONE, BS_STOP, BS_BRANCH}
    /\ num_insns \in Nat
    /\ tb_size \in Addr

\* ---- helpers for the properties ----
Finished == loc = "done"

\* the instruction budget as documented: count field, 0 meaning the whole
\* mask, capped at TCG_MAX_INSNS
maxInstructions ==
    LET c == tb_cflags % (CF_COUNT_MASK + 1)
        m == IF c = 0 THEN CF_COUNT_MASK ELSE c
    IN  IF m < TCG_MAX_INSNS THEN m ELSE TCG_MAX_INSNS

\* end of basePC's guest page, not wrapped
PageEnd == PageOf(tb_pc) + TARGET_PAGE_SIZE

\* indices of the iterations in which the breakpoint test matched
BreakpointHits ==
    {i \in DOMAIN ir : ir[i].op = "insn_start" /\ ir[i].arg \in breakpoints}

\* IR emitted by the exit logic (after gen_io_end, before gen_tb_end)
ExitOps ==
    IF exitStart < 0 THEN <<>>
    ELSE IF loc = "done" THEN SubSeq(ir, exitStart + 1, Len(ir) - 1)
    ELSE SubSeq(ir, exitStart + 1, Len(ir))

HasOp(ops, name) == \E i \in DOMAIN ops : ops[i].op = name

\* C1: the instruction count never exceeds the budget maxInstructions, and
\* the count recorded in the finished block (tb->icount) does not either.
C1_IcountWithinBudget ==
    /\ num_insns <= maxInstructions
    /\ Finished => tb_icount <= maxInstructions

\* C1 witness: a finished block that used the whole budget where the count
\* field of cflags was above TCG_MAX_INSNS, so the cap decided the budget.
C1_Witness ==
    /\ Finished
    /\ CountOf(tb_cflags) > TCG_MAX_INSNS
    /\ tb_icount = TCG_MAX_INSNS

\* C2: every address fetched and decoded lies in [basePC, end of basePC's
\* page), and the loop is never re-entered with currentPC at or past the
\* page end.
C2_FetchBelowPageEnd ==
    /\ \A i \in DOMAIN decoded :
          decoded[i].addr >= tb_pc /\ decoded[i].addr < PageEnd
    /\ (loc = "loop" /\ num_insns > 0) => (ctx_pc > tb_pc /\ ctx_pc < PageEnd)

\* C2 witness: an open block that decoded up to the last instruction of the
\* page with budget left, so the page test is what ended the loop.
C2_Witness ==
    /\ Finished
    /\ ctx_bstate = BS_NONE
    /\ ~cs_singlestep /\ ~singlestep
    /\ num_insns < max_insns
    /\ Len(decoded) >= 1
    /\ decoded[Len(decoded)].addr + INSN_WIDTH = PageEnd

\* C3 as stated: a breakpoint at basePC gives a block with nothing fetched or
\* decoded and a recorded instruction count of 0.
C3_Original ==
    (Finished /\ tb_pc \in breakpoints) => (decoded = <<>> /\ tb_icount = 0)

\* C3 amended: a breakpoint at basePC gives a block with nothing fetched or
\* decoded; the recorded instruction count is 1, because the iteration is
\* counted before the breakpoint test.
C3_BreakpointAtBase ==
    (Finished /\ tb_pc \in breakpoints) => (decoded = <<>> /\ tb_icount = 1)

\* C3 witness: a finished block whose start address carries a breakpoint.
C3_Witness == Finished /\ tb_pc \in breakpoints /\ Len(ir) > 0

\* C4 as stated: at every breakpoint hit the PC written before the debug
\* trap is the address after the breakpoint, currentPC + 4.
C4_Original ==
    \A i \in BreakpointHits :
        /\ ir[i + 1] = Op("movi_pc", AdvancePC(ir[i].arg))
        /\ ir[i + 2] = Op("raise_debug", 0)

\* C4 amended: at every breakpoint hit the PC written before the debug trap
\* is the breakpoint address currentPC itself; only afterwards is ctx.pc
\* advanced by 4, so that the block's size covers the breakpoint address.
C4_BreakpointTarget ==
    \A i \in BreakpointHits :
        /\ ir[i + 1] = Op("movi_pc", ir[i].arg)
        /\ ir[i + 2] = Op("raise_debug", 0)
        /\ ctx_pc = AdvancePC(ir[i].arg)
        /\ ctx_bstate = BS_BRANCH

\* C4 witness: a breakpoint hit in a later iteration than the first.
C4_Witness == \E i \in BreakpointHits : i >= 3 /\ ir[i].arg # tb_pc

\* C5: with no breakpoint hit and no trap raised by the decoder, the finished
\* block has size = icount * 4 and the final currentPC is basePC + size.
C5_SizeMatchesCount ==
    (/\ Finished
     /\ BreakpointHits = {}
     /\ \A i \in DOMAIN decoded : decoded[i].outcome # "Illegal")
    => (/\ tb_size = tb_icount * INSN_WIDTH
        /\ ctx_pc = (tb_pc + tb_size) % AddrSpace)

\* C5 witness: a finished block of two decoded instructions, no breakpoint,
\* no trap, not starting on a page start.
C5_Witness ==
    /\ Finished
    /\ BreakpointHits = {}
    /\ \A i \in DOMAIN decoded : decoded[i].outcome # "Illegal"
    /\ tb_icount = 2
    /\ tb_pc # PageOf(tb_pc)

\* C6: every finished block has a size above 0 that is a multiple of 4.
C6_SizePositiveAligned ==
    Finished => (tb_size > 0 /\ tb_size % INSN_WIDTH = 0)

\* C6 witness: a finished block stopped by a breakpoint on its very first
\* instruction.
C6_Witness ==
    /\ Finished
    /\ decoded = <<>>
    /\ BreakpointHits # {}
    /\ tb_size = INSN_WIDTH

\* the two exit forms of gen_goto_tb
ChainedForm(g) ==
    g.ops = <<Op("goto_tb", g.n), Op("movi_pc", g.dest), ExitTbLinked(g.n)>>

FullDispatchForm(g) ==
    /\ Len(g.ops) >= 2
    /\ g.ops[1] = Op("movi_pc", g.dest)
    /\ g.ops[Len(g.ops)] = Op("exit_tb", 0)
    /\ ~HasOp(g.ops, "goto_tb")

C8_OpenExitNeverChains ==
    (exitStart >= 0 /\ ~cs_singlestep /\ ctx_bstate = BS_NONE)
    => (/\ ExitOps = <<Op("movi_pc", ctx_pc), Op("exit_tb", 0)>>
        /\ ~HasOp(ExitOps, "goto_tb")
        /\ gotos = <<>>)

\* C8 witness: such a block whose final currentPC is still on basePC's page.
C8_Witness ==
    /\ Finished
    /\ exitStart >= 0 /\ ~cs_singlestep /\ ctx_bstate = BS_NONE
    /\ ~userOnly
    /\ PageOf(ctx_pc) = PageOf(tb_pc)

\* C9: in debug mode, when the loop ended in a state other than BranchTaken,
\* the exit logic emits a debug trap, preceded by PC := currentPC exactly when
\* the state is Open, and neither a goto_tb marker nor a gen_goto_tb call.
C9_DebugExitNeverChains ==
    (exitStart >= 0 /\ cs_singlestep /\ ctx_bstate # BS_BRANCH)
    => (/\ ExitOps = (IF ctx_bstate = BS_NONE
                      THEN <<Op("movi_pc", ctx_pc)>> ELSE <<>>)
                     \o <<Op("raise_debug", 0)>>
        /\ ~HasOp(ExitOps, "goto_tb")
        /\ gotos = <<>>)

\* C9 witness: a debug-mode block ended by a decoder-requested stop.
C9_Witness ==
    Finished /\ exitStart >= 0 /\ cs_singlestep /\ ctx_bstate = BS_STOP

\* position of the IR the decoder emitted for the instruction started at j
AfterInsnStart(j) == IF ir[j + 1].op = "io_start" THEN j + 2 ELSE j + 1

C11_FetchFaultHandled ==
    \A i \in DOMAIN decoded :
        decoded[i].fault =>
            /\ i = Len(decoded)
            /\ ctx_bstate = BS_STOP
            /\ \E j \in DOMAIN ir :
                  /\ ir[j] = Op("insn_start", decoded[i].addr)
                  /\ ir[AfterInsnStart(j)].op = "movi_pc"
                  /\ ir[AfterInsnStart(j) + 1].op \in
                        {"raise_exception", "raise_exception_mbadaddr"}

NumOps(ops, name) == Cardinality({i \in DOMAIN ops : ops[i].op = name})

\* C16: with single-step mode on and a breakpoint at currentPC the breakpoint
\* path fires: the block holds exactly one debug trap (the breakpoint's),
\* nothing is decoded, the state is BranchTaken and nothing is emitted after
\* the trap but the end of the block.
C16_BreakpointBeforeSingleStep ==
    (cs_singlestep /\ BreakpointHits # {}
       /\ loc \in {"done_generating", "done"})
    => (/\ NumOps(ir, "raise_debug") = 1
        /\ decoded = <<>>
        /\ ctx_bstate = BS_BRANCH
        /\ exitStart = -1
        /\ SubSeq(ir, 1, 4) = <<Op("tb_start", 0), Op("insn_start", tb_pc),
                                 Op("movi_pc", tb_pc), Op("raise_debug", 0)>>
        /\ Len(ir) = (IF loc = "done" THEN 5 ELSE 4))

\* C16 witness: a finished single-step build with a breakpoint at basePC.
C16_Witness ==
    Finished /\ cs_singlestep /\ tb_pc \in breakpoints /\ BreakpointHits # {}

NotChained(g) == ~HasOp(g.ops, "goto_tb")

\* C17 as stated: a gen_goto_tb call that does not chain emits, when
\* single-stepping, a PC write and a debug trap and no exit_tb(0); otherwise
\* a PC write and exit_tb(0) and no debug trap.
C17_Original ==
    \A i \in DOMAIN gotos :
        NotChained(gotos[i]) =>
            gotos[i].ops =
                IF gotos[i].ss
                THEN <<Op("movi_pc", gotos[i].dest), Op("raise_debug", 0)>>
                ELSE <<Op("movi_pc", gotos[i].dest), Op("exit_tb", 0)>>

\* C17 amended: a gen_goto_tb call that does not chain emits, when
\* single-stepping, a PC write, a debug trap and then still exit_tb(0);
\* otherwise a PC write and exit_tb(0) and no debug trap.
C17_UnchainedExit ==
    \A i \in DOMAIN gotos :
        NotChained(gotos[i]) =>
            gotos[i].ops =
                IF gotos[i].ss
                THEN <<Op("movi_pc", gotos[i].dest), Op("raise_debug", 0),
                       Op("exit_tb", 0)>>
                ELSE <<Op("movi_pc", gotos[i].dest), Op("exit_tb", 0)>>

\* C17 witness: a call with single-stepping on, which does not chain.
C17_Witness ==
    \E i \in DOMAIN gotos : gotos[i].ss /\ NotChained(gotos[i])

\* C18: with single-step mode or the forced-single-instruction flag on, the
\* loop runs one iteration only and the finished block has icount 1, size 4.
C18_SingleStepOneInsn ==
    (cs_singlestep \/ singlestep)
    => (/\ num_insns <= 1
        /\ Finished => (tb_icount = 1 /\ tb_size = INSN_WIDTH))

\* C18 witness: only the global flag is on, and budget, page and decoder
\* would all have allowed a second instruction.
C18_Witness ==
    /\ Finished
    /\ singlestep /\ ~cs_singlestep
    /\ maxInstructions >= 2
    /\ ctx_bstate = BS_NONE
    /\ ctx_pc < PageEnd /\ ctx_pc > tb_pc
    /\ BreakpointHits = {}

IoStarts == {i \in DOMAIN ir : ir[i].op = "io_start"}

\* C19: gen_io_start is emitted at most once, only in a CF_LAST_IO block and
\* only right after the start of the instruction whose ordinal is
\* maxInstructions, which is then decoded; and once the loop is left, a
\* gen_io_end follows every gen_io_start.
C19_IoStartMatched ==
    /\ Cardinality(IoStarts) <= 1
    /\ \A i \in IoStarts :
          /\ HasLastIO(tb_cflags)
          /\ ir[i - 1].op = "insn_start"
          /\ NumOps(SubSeq(ir, 1, i), "insn_start") = maxInstructions
          /\ Len(decoded) = maxInstructions
          /\ decoded[Len(decoded)].addr = ir[i - 1].arg
          /\ loc \in {"done_generating", "done"} =>
                \E j \in DOMAIN ir : j > i /\ ir[j].op = "io_end"

\* C19 witness: a finished block with gen_io_start whose loop was left on a
\* decoder-requested stop.
C19_Witness ==
    Finished /\ IoStarts # {} /\ ctx_bstate = BS_STOP

\* basePC lies in the topmost guest page: next_page_start wraps to 0
TopPage == PageOf(tb_pc) + TARGET_PAGE_SIZE = AddrSpace

\* C20 as stated: with basePC in the topmost page the build decodes exactly
\* one instruction and records size 4, computed modulo 2^w.
C20_Original ==
    (TopPage /\ Finished)
    => (/\ Len(decoded) = 1
        /\ tb_size = INSN_WIDTH
        /\ tb_size = (ctx_pc - tb_pc) % AddrSpace)

\* C20 amended: with basePC in the topmost page the build runs exactly one
\* loop iteration and records icount 1 and size 4, computed modulo 2^w; it
\* decodes exactly one instruction, or none when a breakpoint is at basePC.
C20_TopPageOneIteration ==
    TopPage
    => (/\ num_insns <= 1
        /\ Finished =>
              /\ tb_icount = 1
              /\ tb_size = INSN_WIDTH
              /\ tb_size = (ctx_pc - tb_pc) % AddrSpace
              /\ Len(decoded) = (IF tb_pc \in breakpoints THEN 0 ELSE 1))

\* C20 witness: the last instruction of the address space was decoded with
\* budget left, and currentPC wrapped to 0.
C20_Witness ==
    /\ Finished
    /\ TopPage
    /\ ctx_pc = 0
    /\ Len(decoded) = 1
    /\ ctx_bstate = BS_NONE
    /\ ~cs_singlestep /\ ~singlestep
    /\ maxInstructions >= 2

\* C12: register 0 never gets a TCG global (once initialised, exactly
\* registers 1..31 have one), so whatever is written, env->gpr[0] stays 0
\* and every read of register 0 yields 0.
C12_RegisterZero ==
    /\ 0 \notin cpu_gpr
    /\ tcg_inited => cpu_gpr = 1 .. 31
    /\ env_gpr[0] = 0
    /\ \A i \in DOMAIN reg_read : reg_read[i].reg = 0 => reg_read[i].val = 0

\* C12 witness: register 0 is read after writes were emitted, one of them
\* to another register.
C12_Witness ==
    /\ reg_ops = MaxRegOps
    /\ reg_read # <<>>
    /\ reg_read[1].reg = 0
    /\ env_gpr[1] # 0

\* the spellings of "riscv" in any mix of cases
IsRiscvName(name) ==
    /\ Len(name) = 5
    /\ name[1] \in {"r", "R"} /\ name[2] \in {"i", "I"}
    /\ name[3] \in {"s", "S"} /\ name[4] \in {"c", "C"}
    /\ name[5] \in {"v", "V"}

\* C13: a name that is "riscv" in any mix of cases resolves to the one table
\* entry and cpu_riscv_init creates a CPU for it; for any other name it
\* returns NULL and creates or changes no CPU state.
C13_ModelLookup ==
    \A i \in DOMAIN init_calls :
        LET c == init_calls[i]
        IN  IF IsRiscvName(c.name)
            THEN /\ c.ret = Len(c.before) + 1
                 /\ Len(c.after) = c.ret
                 /\ c.after = Append(c.before, c.after[c.ret])
                 /\ c.after[c.ret].cpu_model = 1
            ELSE /\ c.ret = 0
                 /\ c.after = c.before

\* C13 witness: "riscv" and then "RISCV" were looked up, each created a CPU
\* and both resolved to the same entry.
C13_Witness ==
    /\ Len(init_calls) = 2
    /\ init_calls[1].name = <<"r", "i", "s", "c", "v">>
    /\ init_calls[2].name = <<"R", "I", "S", "C", "V">>
    /\ Len(cpus) = 2
    /\ cpus[1].cpu_model = cpus[2].cpu_model

\* ---- one invocation run alone, start to finish ----
AloneDone(in, pc, bstate, n, ops) ==
    [size |-> TbSize(pc, in.pc), icount |-> n, bstate |-> bstate,
     ir |-> Append(ops, Op("tb_end", n))]

AloneTail(in, pc, bstate, n, ops) ==
    AloneDone(in, pc, bstate, n,
              ops \o IoEndOps(in.cflags)
                  \o ExitLogic(in.ss, in.ss, bstate, pc, in.pc, userOnly).ir)

RECURSIVE AloneLoop(_, _, _, _, _)
AloneLoop(in, pc, bstate, n, ops) ==
    IF bstate # BS_NONE THEN AloneTail(in, pc, bstate, n, ops)
    ELSE IF cpu_breakpoint_test(in.bps, pc)
    THEN AloneDone(in, BreakpointPath(pc).pc, BreakpointPath(pc).bstate, n + 1,
                   Append(ops, Op("insn_start", pc)) \o BreakpointPath(pc).ir)
    ELSE LET d == decode_opc(in.outcome, pc, in.ss, in.pc, 0, 0, userOnly)
             ops2 == Append(ops, Op("insn_start", pc))
                        \o IoStartOps(n + 1, MaxInsns(in.cflags), in.cflags)
                        \o d.ir
             npc == AdvancePC(pc)
         IN  IF LoopBreak(in.ss, npc, NextPageStart(in.pc), FALSE, n + 1,
                          MaxInsns(in.cflags), singlestep)
             THEN AloneTail(in, npc, d.bstate, n + 1, ops2)
             ELSE AloneLoop(in, npc, d.bstate, n + 1, ops2)

BuildAlone(in) == AloneLoop(in, in.pc, BS_NONE, 0, <<Op("tb_start", 0)>>)

ConcResult(p) ==
    [size |-> c_tb[p].size, icount |-> c_tb[p].icount,
     bstate |-> c_ctx[CtxOf(p)].bstate, ir |-> c_ir[StreamOf(p)]]

\* C15: under every interleaving of two invocations, each one's descriptor
\* (size, icount), termination state and IR sequence are those it produces
\* when run alone.
C15_Independent ==
    \A p \in DOMAIN c_loc :
        c_loc[p] = "done" => ConcResult(p) = BuildAlone(c_in[p])

\* C15 witness: both invocations finished, given different blocks, one of two
\* instructions and one of a single instruction.
C15_Witness ==
    /\ c_loc # <<>>
    /\ \A p \in DOMAIN c_loc : c_loc[p] = "done"
    /\ c_in[1].pc # c_in[2].pc
    /\ c_tb[1].icount = 2
    /\ c_tb[2].icount = 1

====
